---- MODULE Spec2Model ----
(***************************************************************************)
(* A model of synth_minidump.rs: the SynthMinidump assembler, the          *)
(* DumpSection / Stream citation traits and the typed stream builders      *)
(* (SimpleStream, List, DumpString, MiscStream), over the Label / Section  *)
(* primitives of the test_assembler crate.                                 *)
(*                                                                         *)
(* Labels live in a heap (`labels`): a Label handle is an index into it,   *)
(* and cloning a Label copies the index, so every holder sees one binding. *)
(* Numbers are kept below 2^31; a D64 of such a value has four zero high   *)
(* bytes.                                                                  *)
(***************************************************************************)
EXTENDS Integers, Sequences, FiniteSets, TLC

VARIABLES
    labels,               \* heap of Label bindings
    section,              \* SynthMinidump.section
    flags,                \* SynthMinidump.flags (a Label)
    stream_count,         \* SynthMinidump.stream_count
    stream_count_label,   \* SynthMinidump.stream_count_label
    stream_directory_rva, \* SynthMinidump.stream_directory_rva
    stream_directory,     \* SynthMinidump.stream_directory
    endian,               \* the endianness the assembler was created with
    unit_endian,          \* the endianness the caller builds its units with
    bench,                \* units the caller has built and not yet handed over
    target,               \* the Section a location was cited into (test_section_cite)
    state,                \* "building", "finished" (Some), "failed" (None), "panicked"
    output,               \* the bytes finish returned
    unit_contents,        \* what get_contents returned for a unit of the bench
    target_contents,      \* what get_contents returned for the target
    calls,                \* history: one record per add / add_stream call
    flagCalls,            \* history: the arguments of the flags calls
    built                 \* history: number of units constructed

vars == <<labels, section, flags, stream_count, stream_count_label,
          stream_directory_rva, stream_directory, endian, unit_endian,
          bench, target, state, output, unit_contents, target_contents, calls, flagCalls,
          built>>

---------------------------------------------------------------------------
(* Bounds of the model *)

MaxUnits == 2        \* add / add_stream calls per assembler
MaxEntries == 2      \* List::add calls per list
MaxBench == 3        \* units held by the caller at once
MaxFlagCalls == 2    \* flags calls per assembler
MaxBuilt == 3        \* units the caller constructs in one run

Endians == {"Little", "Big"}
FlagValues == {1, 16909060}
StreamTypes == {287454020}
Payloads == {1432778632}
Texts == {<<>>, <<104, 105>>, <<128512>>}
StartValues == {16707090}
ProcessIds == {4660}
ProcessTimes == {22136}
PadSizes == {20, 28}

---------------------------------------------------------------------------
(* Program constants *)

None == -1
MD_HEADER_SIGNATURE == 1347241037
MD_HEADER_VERSION == 42899
DATE_TIME_STAMP == 1262805309
HeaderSize == 32
MD_MISC_INFO_STREAM == 15
MD_MISCINFO_FLAGS1_PROCESS_ID == 1
MD_MISCINFO_FLAGS1_PROCESS_TIMES == 2

---------------------------------------------------------------------------
(* Integers as bytes *)

ByteAt(v, k) == IF k >= 4 THEN 0 ELSE (v \div (256 ^ k)) % 256

Bytes(v, n, e) ==
    IF e = "Little" THEN [i \in 1..n |-> ByteAt(v, i - 1)]
                    ELSE [i \in 1..n |-> ByteAt(v, n - i)]

Zeros(n) == [i \in 1..n |-> 0]

Slice(s, from, len) == [i \in 1..len |-> s[from + i]]

---------------------------------------------------------------------------
(* Label *)

Unconstrained == [kind |-> "Unconstrained", val |-> 0, base |-> 0, binds |-> 0]

NewLabel(L) == Append(L, Unconstrained)

RECURSIVE Value(_, _)
Value(L, l) ==
    IF L[l].kind = "Constant" THEN L[l].val
    ELSE IF L[l].kind = "From"
         THEN IF Value(L, L[l].base) = None THEN None
              ELSE Value(L, L[l].base) + L[l].val
         ELSE None

(* Binding replaces whatever binding the Label had; `binds` counts them *)
set_const(L, l, v) ==
    [L EXCEPT ![l] = [kind |-> "Constant", val |-> v, base |-> 0,
                      binds |-> @.binds + 1]]

set(L, l, other) ==
    [L EXCEPT ![l] = [kind |-> "From", val |-> 0, base |-> other,
                      binds |-> @.binds + 1]]

LabelPlus(L, l, n) ==
    Append(L, [kind |-> "From", val |-> n, base |-> l, binds |-> 1])

---------------------------------------------------------------------------
(* Section.  Operations that touch the heap return [L |-> heap, s |-> section] *)

Section_with_endian(L, e) ==
    [L |-> NewLabel(NewLabel(L)),
     s |-> [endian |-> e, contents |-> <<>>, references |-> <<>>,
            start |-> Len(L) + 1, final_size |-> Len(L) + 2]]

size(s) == Len(s.contents)

append_bytes(s, b) == [s EXCEPT !.contents = @ \o b]

append_repeated(s, byte, n) == append_bytes(s, [i \in 1..n |-> byte])

D32(s, v) == append_bytes(s, Bytes(v, 4, s.endian))

(* A Label written into a section is recorded as a reference of n bytes,   *)
(* patched when the contents are produced.                                 *)
append_label(L, s, l, n) ==
    [s EXCEPT !.references =
                  Append(@, [label |-> l, offset |-> size(s),
                             endian |-> s.endian, size |-> n]),
              !.contents = @ \o Zeros(n)]

D32L(L, s, l) == append_label(L, s, l, 4)

D64L(L, s, l) == append_label(L, s, l, 8)

mark(L, s, l) == set(LabelPlus(L, s.start, size(s)), l, Len(L) + 1)

append_section(L, s, c) ==
    [L |-> set_const(L, c.final_size, size(c)),
     s |-> [s EXCEPT
              !.contents = @ \o c.contents,
              !.references = @ \o
                  [i \in 1..Len(c.references) |->
                      [c.references[i] EXCEPT !.offset = @ + size(s)]]]]

RefAt(s, i) ==
    {r \in 1..Len(s.references) :
        /\ s.references[r].offset < i
        /\ i <= s.references[r].offset + s.references[r].size}

Patched(L, s) ==
    [i \in 1..size(s) |->
        IF RefAt(s, i) = {} THEN s.contents[i]
        ELSE LET r == s.references[CHOOSE x \in RefAt(s, i) : TRUE]
             IN  Bytes(Value(L, r.label), r.size, r.endian)[i - r.offset]]

Resolved(L, s) ==
    \A r \in 1..Len(s.references) : Value(L, s.references[r].label) # None

get_contents(L, s) ==
    LET L1 == set_const(L, s.final_size, size(s))
    IN  [L |-> L1,
         ok |-> Resolved(L1, s),
         bytes |-> IF Resolved(L1, s) THEN Patched(L1, s) ELSE <<>>]

---------------------------------------------------------------------------
(* The units a caller builds: Section, SimpleStream, List, DumpString,     *)
(* MiscStream.  One record shape for all; a kind ignores the fields it     *)
(* does not have.  `entries` is history: the serialization of each entry   *)
(* handed to List::add, the Labels that are the entry's offset and size,   *)
(* and the entry's own entries; `text` is history: the text a DumpString   *)
(* was built from.                                                         *)

Unit(k, t, s) ==
    [kind |-> k, stream_type |-> t, section |-> s, count |-> 0,
     count_label |-> 0, process_id |-> None, process_create_time |-> None,
     pad_to_size |-> None, entries |-> <<>>, text |-> <<>>]

StreamKinds == {"SimpleStream", "List", "MiscStream"}

(* The entry types T the caller instantiates List<T> with *)
EntryKinds == {"Section", "DumpString", "List"}

file_offset(u) == u.section.start

file_size(u) == u.section.final_size

stream_type(u) ==
    IF u.kind = "MiscStream" THEN MD_MISC_INFO_STREAM ELSE u.stream_type

(* offset written before size *)
cite_location_in_swapped(L, u, s) ==
    D32L(L, D32L(L, s, file_offset(u)), file_size(u))

cite_location_in(L, u, s) ==
    D32L(L, D32L(L, s, file_size(u)), file_offset(u))

cite_stream_in(L, u, s) ==
    cite_location_in(L, u, D32(s, stream_type(u)))

(* Section::with_endian(e).D32(payload), and optionally .D32(&label) for a *)
(* fresh Label that nothing binds.                                         *)
PlainSection(L, e, payload, dangling) ==
    LET N == Section_with_endian(L, e)
        s1 == D32(N.s, payload)
    IN  IF dangling
        THEN [L |-> NewLabel(N.L), s |-> D32L(NewLabel(N.L), s1, Len(N.L) + 1)]
        ELSE [L |-> N.L, s |-> s1]

List_new(L, t, e) ==
    LET L1 == NewLabel(L)
        N == Section_with_endian(L1, e)
    IN  [L |-> N.L,
         u |-> [Unit("List", t, D32L(N.L, N.s, Len(L1)))
                    EXCEPT !.count_label = Len(L1)]]

(* UTF-16LE: one 16-bit unit per code point below 0x10000, a surrogate     *)
(* pair above; each unit low byte first, whatever the section's endianness *)
RECURSIVE UTF_16LE(_)
UTF_16LE(text) ==
    IF text = <<>> THEN <<>>
    ELSE LET c == Head(text)
             hi == 55296 + ((c - 65536) \div 1024)
             lo == 56320 + ((c - 65536) % 1024)
         IN  (IF c < 65536
              THEN <<c % 256, c \div 256>>
              ELSE <<hi % 256, hi \div 256, lo % 256, lo \div 256>>)
             \o UTF_16LE(Tail(text))

(* the prefix counts the characters of the text *)
DumpString_new_chars(L, text, e) ==
    LET N == Section_with_endian(L, e)
        u16_s == UTF_16LE(text)
    IN  [L |-> N.L,
         u |-> [Unit("DumpString", 0,
                     append_bytes(D32(N.s, Len(text)), u16_s))
                    EXCEPT !.text = text]]

DumpString_new(L, text, e) ==
    LET N == Section_with_endian(L, e)
        u16_s == UTF_16LE(text)
    IN  [L |-> N.L,
         u |-> [Unit("DumpString", 0,
                     append_bytes(D32(N.s, Len(u16_s)), u16_s))
                    EXCEPT !.text = text]]

(* the size the section has at construction, written as a number *)
MiscStream_new_literal(L, e) ==
    LET N == Section_with_endian(L, e)
    IN  [L |-> N.L, u |-> Unit("MiscStream", 0, D32(N.s, size(N.s)))]

MiscStream_new(L, e) ==
    LET N == Section_with_endian(L, e)
    IN  [L |-> N.L,
         u |-> Unit("MiscStream", 0, D32L(N.L, N.s, N.s.final_size))]

(* the two mask bits exchanged *)
MiscStream_into_bits_swapped(L, u) ==
    LET L1 == NewLabel(L)
        flags_label == Len(L) + 1
        s1 == D32L(L1, u.section, flags_label)
        f1 == IF u.process_id # None
              THEN MD_MISCINFO_FLAGS1_PROCESS_TIMES ELSE 0
        s2 == D32(s1, IF u.process_id # None THEN u.process_id ELSE 0)
        f2 == IF u.process_create_time # None
              THEN MD_MISCINFO_FLAGS1_PROCESS_ID ELSE 0
        s3 == D32(D32(D32(s2, IF u.process_create_time # None
                              THEN u.process_create_time ELSE 0), 0), 0)
        L2 == set_const(L1, flags_label, f1 + f2)
    IN  IF u.pad_to_size = None THEN [L |-> L2, s |-> s3, ok |-> TRUE]
        ELSE IF u.pad_to_size < size(s3) THEN [L |-> L2, s |-> s3, ok |-> FALSE]
        ELSE [L |-> L2, ok |-> TRUE,
              s |-> append_repeated(s3, 0, u.pad_to_size - size(s3))]

(* Into<Section> for MiscStream.  ok is FALSE where the subtraction        *)
(* `size as u64 - section.size()` underflows: a panic in a checked build,  *)
(* a request for about 2^64 bytes of padding otherwise.                    *)
MiscStream_into(L, u) ==
    LET L1 == NewLabel(L)
        flags_label == Len(L) + 1
        s1 == D32L(L1, u.section, flags_label)
        f1 == IF u.process_id # None THEN MD_MISCINFO_FLAGS1_PROCESS_ID ELSE 0
        s2 == D32(s1, IF u.process_id # None THEN u.process_id ELSE 0)
        f2 == IF u.process_create_time # None
              THEN MD_MISCINFO_FLAGS1_PROCESS_TIMES ELSE 0
        s3 == D32(D32(D32(s2, IF u.process_create_time # None
                              THEN u.process_create_time ELSE 0), 0), 0)
        L2 == set_const(L1, flags_label, f1 + f2)
    IN  IF u.pad_to_size = None THEN [L |-> L2, s |-> s3, ok |-> TRUE]
        ELSE IF u.pad_to_size < size(s3) THEN [L |-> L2, s |-> s3, ok |-> FALSE]
        ELSE [L |-> L2, ok |-> TRUE,
              s |-> append_repeated(s3, 0, u.pad_to_size - size(s3))]

List_into(L, u) ==
    [L |-> set_const(L, u.count_label, u.count), s |-> u.section, ok |-> TRUE]

Into(L, u) ==
    IF u.kind = "List" THEN List_into(L, u)
    ELSE IF u.kind = "MiscStream" THEN MiscStream_into(L, u)
    ELSE [L |-> L, s |-> u.section, ok |-> TRUE]

(* What a unit serializes to on its own: Into::<Section>::into(u).get_contents() *)
Serialized(L, u) ==
    LET I == Into(L, u)
        G == get_contents(I.L, I.s)
    IN  [ok |-> I.ok /\ G.ok, bytes |-> IF I.ok THEN G.bytes ELSE <<>>,
         L |-> G.L, panic |-> ~I.ok]

(* the entry is spliced in and not counted *)
List_add_uncounted(L, list, entry) ==
    LET L1 == mark(L, list.section, file_offset(entry))
        I == Into(L1, entry)
        A == append_section(I.L, list.section, I.s)
    IN  [L |-> A.L, ok |-> I.ok,
         u |-> [list EXCEPT
                  !.section = A.s,
                  !.entries = Append(@, [offset |-> file_offset(entry),
                                         size |-> file_size(entry),
                                         len |-> size(I.s),
                                         at |-> size(list.section),
                                         ser |-> Serialized(L, entry).bytes,
                                         sub |-> entry.entries])]]

(* the entry's offset is marked after the entry is appended *)
List_add_late_mark(L, list, entry) ==
    LET I == Into(L, entry)
        A == append_section(I.L, list.section, I.s)
        L1 == mark(A.L, A.s, file_offset(entry))
    IN  [L |-> L1, ok |-> I.ok,
         u |-> [list EXCEPT
                  !.count = @ + 1,
                  !.section = A.s,
                  !.entries = Append(@, [offset |-> file_offset(entry),
                                         size |-> file_size(entry),
                                         len |-> size(I.s),
                                         at |-> size(list.section),
                                         ser |-> Serialized(L, entry).bytes,
                                         sub |-> entry.entries])]]

List_add(L, list, entry) ==
    LET L1 == mark(L, list.section, file_offset(entry))
        I == Into(L1, entry)
        A == append_section(I.L, list.section, I.s)
    IN  [L |-> A.L, ok |-> I.ok,
         u |-> [list EXCEPT
                  !.count = @ + 1,
                  !.section = A.s,
                  !.entries = Append(@, [offset |-> file_offset(entry),
                                         size |-> file_size(entry),
                                         len |-> size(I.s),
                                         at |-> size(list.section),
                                         ser |-> Serialized(L, entry).bytes,
                                         sub |-> entry.entries])]]

---------------------------------------------------------------------------
(* SynthMinidump.  `self` is the struct; the operations return the heap    *)
(* and the struct they leave behind.                                       *)

SynthMinidump_with_endian(e) ==
    LET L3 == NewLabel(NewLabel(NewLabel(<<>>)))
        flags_l == 1
        stream_count_l == 2
        stream_directory_rva_l == 3
        N == Section_with_endian(L3, e)
        s1 == D32(D32(N.s, MD_HEADER_SIGNATURE), MD_HEADER_VERSION)
        s2 == D32L(N.L, D32L(N.L, s1, stream_count_l), stream_directory_rva_l)
        s3 == D64L(N.L, D32(D32(s2, 0), DATE_TIME_STAMP), flags_l)
        L4 == set_const(N.L, s3.start, 0)
        D == Section_with_endian(L4, e)
    IN  [L |-> D.L,
         self |-> [section |-> s3,
                   flags |-> flags_l,
                   stream_count |-> 0,
                   stream_count_label |-> stream_count_l,
                   stream_directory_rva |-> stream_directory_rva_l,
                   stream_directory |-> D.s]]

SynthMinidump_flags(L, self, v) ==
    [L |-> set_const(L, self.flags, v), self |-> self]

(* the offset is marked after the unit is appended *)
add_late_mark(L, self, u) ==
    LET offset == file_offset(u)
        I == Into(L, u)
        A == append_section(I.L, self.section, I.s)
    IN  [L |-> mark(A.L, A.s, offset), ok |-> I.ok,
         self |-> [self EXCEPT !.section = A.s]]

(* the unit's section is appended as it stands, without Into *)
add_raw(L, self, u) ==
    LET offset == file_offset(u)
        L1 == mark(L, self.section, offset)
        A == append_section(L1, self.section, u.section)
    IN  [L |-> A.L, ok |-> TRUE, self |-> [self EXCEPT !.section = A.s]]

(* the unit is counted as a stream *)
add_counted(L, self, u) ==
    LET offset == file_offset(u)
        L1 == mark(L, self.section, offset)
        I == Into(L1, u)
        A == append_section(I.L, self.section, I.s)
    IN  [L |-> A.L, ok |-> I.ok,
         self |-> [self EXCEPT !.section = A.s, !.stream_count = @ + 1]]

add(L, self, u) ==
    LET offset == file_offset(u)
        L1 == mark(L, self.section, offset)
        I == Into(L1, u)
        A == append_section(I.L, self.section, I.s)
    IN  [L |-> A.L, ok |-> I.ok, self |-> [self EXCEPT !.section = A.s]]

(* the stream is cited and not counted *)
add_stream_uncounted(L, self, u) ==
    LET dir == cite_stream_in(L, u, self.stream_directory)
    IN  add(L, [self EXCEPT !.stream_directory = dir], u)

(* the stream's offset is marked here as well as in add *)
add_stream_marked(L, self, u) ==
    LET dir == cite_stream_in(L, u, self.stream_directory)
        L1 == mark(L, self.section, file_offset(u))
    IN  add(L1, [self EXCEPT !.stream_directory = dir,
                             !.stream_count = @ + 1], u)

add_stream(L, self, u) ==
    LET dir == cite_stream_in(L, u, self.stream_directory)
    IN  add(L, [self EXCEPT !.stream_directory = dir,
                            !.stream_count = @ + 1], u)

(* the directory offset is marked after the directory is appended *)
finish_rva_at_end(L, self) ==
    LET L1 == IF Value(L, self.flags) = None
              THEN set_const(L, self.flags, 0) ELSE L
        L2 == set_const(L1, self.stream_count_label, self.stream_count)
        A == append_section(L2, self.section, self.stream_directory)
        L3 == mark(A.L, A.s, self.stream_directory_rva)
    IN  get_contents(L3, A.s)

(* flags set to 0 without asking whether the caller set them *)
finish_flags_zeroed(L, self) ==
    LET L1 == set_const(L, self.flags, 0)
        L2 == set_const(L1, self.stream_count_label, self.stream_count)
        L3 == mark(L2, self.section, self.stream_directory_rva)
        A == append_section(L3, self.section, self.stream_directory)
    IN  get_contents(A.L, A.s)

(* every Label still unbound is set to 0, not the flags alone *)
finish_default_all(L, self) ==
    LET L1 == [l \in 1..Len(L) |->
                  IF L[l].kind = "Unconstrained"
                  THEN [kind |-> "Constant", val |-> 0, base |-> 0,
                        binds |-> 1]
                  ELSE L[l]]
        L2 == set_const(L1, self.stream_count_label, self.stream_count)
        L3 == mark(L2, self.section, self.stream_directory_rva)
        A == append_section(L3, self.section, self.stream_directory)
    IN  get_contents(A.L, A.s)

finish(L, self) ==
    LET L1 == IF Value(L, self.flags) = None
              THEN set_const(L, self.flags, 0) ELSE L
        L2 == set_const(L1, self.stream_count_label, self.stream_count)
        L3 == mark(L2, self.section, self.stream_directory_rva)
        A == append_section(L3, self.section, self.stream_directory)
    IN  get_contents(A.L, A.s)

---------------------------------------------------------------------------
(* The state machine: a caller that builds units, hands them to the        *)
(* assembler, and finishes.                                                *)

Self ==
    [section |-> section, flags |-> flags, stream_count |-> stream_count,
     stream_count_label |-> stream_count_label,
     stream_directory_rva |-> stream_directory_rva,
     stream_directory |-> stream_directory]

Becomes(self) ==
    /\ section' = self.section
    /\ flags' = self.flags
    /\ stream_count' = self.stream_count
    /\ stream_count_label' = self.stream_count_label
    /\ stream_directory_rva' = self.stream_directory_rva
    /\ stream_directory' = self.stream_directory

dumpVars == <<section, flags, stream_count, stream_count_label,
              stream_directory_rva, stream_directory>>

Top == bench[Len(bench)]

Pop == SubSeq(bench, 1, Len(bench) - 1)

Init ==
    \E e \in Endians, ue \in Endians :
        LET D == SynthMinidump_with_endian(e)
        IN  /\ labels = D.L
            /\ section = D.self.section
            /\ flags = D.self.flags
            /\ stream_count = D.self.stream_count
            /\ stream_count_label = D.self.stream_count_label
            /\ stream_directory_rva = D.self.stream_directory_rva
            /\ stream_directory = D.self.stream_directory
            /\ endian = e
            /\ unit_endian = ue
            /\ bench = <<>>
            /\ target = <<>>
            /\ state = "building"
            /\ output = <<>>
            /\ unit_contents = <<>>
            /\ target_contents = <<>>
            /\ calls = <<>>
            /\ flagCalls = <<>>
            /\ built = 0

(* The caller builds a unit when it holds none, or holds a List that the  *)
(* new unit is to become an entry of.                                     *)
CanBuild(kind) ==
    /\ state = "building"
    /\ Len(bench) < MaxBench
    /\ built < MaxBuilt
    /\ unit_contents = <<>>
    /\ target_contents = <<>>
    /\ bench # <<>> => /\ Top.kind = "List"
                       /\ Top.count < MaxEntries
                       /\ kind \in EntryKinds

Push(L, u) ==
    /\ labels' = L
    /\ bench' = Append(bench, u)
    /\ built' = built + 1
    /\ UNCHANGED <<dumpVars, endian, unit_endian, target, state, output, unit_contents,
                   target_contents, calls, flagCalls>>

(* Section::with_endian(e).D32(payload) *)
NewSection ==
    /\ CanBuild("Section")
    /\ \E p \in Payloads :
         LET N == PlainSection(labels, unit_endian, p, FALSE)
         IN  Push(N.L, Unit("Section", 0, N.s))

(* Section::with_endian(e).D32(payload).D32(&label), label bound nowhere *)
NewSectionWithLabel ==
    /\ CanBuild("Section")
    /\ \E p \in Payloads :
         LET N == PlainSection(labels, unit_endian, p, TRUE)
         IN  Push(N.L, Unit("Section", 0, N.s))

NewSimpleStream ==
    /\ CanBuild("SimpleStream")
    /\ \E p \in Payloads, t \in StreamTypes :
         LET N == PlainSection(labels, unit_endian, p, FALSE)
         IN  Push(N.L, Unit("SimpleStream", t, N.s))

NewList ==
    /\ CanBuild("List")
    /\ \E t \in StreamTypes :
         LET N == List_new(labels, t, unit_endian)
         IN  Push(N.L, N.u)

NewDumpStringOf(texts) ==
    /\ CanBuild("DumpString")
    /\ \E text \in texts :
         LET N == DumpString_new(labels, text, unit_endian)
         IN  Push(N.L, N.u)

(* DumpString::new of any of the texts *)
NewDumpString == NewDumpStringOf(Texts)

(* DumpString::new("hi", e) *)
NewName == NewDumpStringOf({<<104, 105>>})

NewMiscStream ==
    /\ CanBuild("MiscStream")
    /\ LET N == MiscStream_new(labels, unit_endian)
       IN  Push(N.L, N.u)

(* The caller assigns the pub fields of the MiscStream it holds *)
SetField(u) ==
    /\ bench' = Append(Pop, u)
    /\ UNCHANGED <<labels, dumpVars, endian, unit_endian, target, state,
                   output, unit_contents, target_contents, calls, flagCalls,
                   built>>

HoldsMisc ==
    /\ state = "building"
    /\ bench # <<>>
    /\ Top.kind = "MiscStream"

SetProcessId ==
    /\ HoldsMisc
    /\ Top.process_id = None
    /\ \E pid \in ProcessIds : SetField([Top EXCEPT !.process_id = pid])

SetProcessCreateTime ==
    /\ HoldsMisc
    /\ Top.process_create_time = None
    /\ \E time \in ProcessTimes :
         SetField([Top EXCEPT !.process_create_time = time])

SetPadToSize ==
    /\ HoldsMisc
    /\ Top.pad_to_size = None
    /\ \E pad \in PadSizes : SetField([Top EXCEPT !.pad_to_size = pad])

Panic ==
    /\ state' = "panicked"
    /\ UNCHANGED <<labels, dumpVars, endian, unit_endian, bench, target, output,
                   unit_contents, target_contents, calls, flagCalls, built>>

ListAdd ==
    /\ state = "building"
    /\ Len(bench) >= 2
    /\ bench[Len(bench) - 1].kind = "List"
    /\ bench[Len(bench) - 1].count < MaxEntries
    /\ Value(labels, file_offset(Top)) = None
    /\ LET R == List_add(labels, bench[Len(bench) - 1], Top)
       IN  IF R.ok
           THEN /\ labels' = R.L
                /\ bench' = Append(SubSeq(bench, 1, Len(bench) - 2), R.u)
                /\ UNCHANGED <<dumpVars, endian, unit_endian, target, state, output,
                               unit_contents, target_contents, calls,
                               flagCalls, built>>
           ELSE Panic

Call(isStream, u) ==
    [stream |-> isStream, stream_type |-> stream_type(u),
     offset |-> file_offset(u), size |-> file_size(u),
     at |-> size(section),
     len |-> size(Into(labels, u).s),
     ser |-> Serialized(labels, u).bytes,
     serOk |-> Serialized(labels, u).ok,
     unit |-> u]

Hand(R, isStream) ==
    IF R.ok
    THEN /\ labels' = R.L
         /\ Becomes(R.self)
         /\ bench' = Pop
         /\ calls' = Append(calls, Call(isStream, Top))
         /\ UNCHANGED <<endian, unit_endian, target, state, output, unit_contents,
                        target_contents, flagCalls, built>>
    ELSE Panic

(* The caller hands over the unit it holds; units arrive with their offset *)
(* Label unbound.                                                         *)
CanHand ==
    /\ state = "building"
    /\ bench # <<>>
    /\ Len(calls) < MaxUnits
    /\ Value(labels, file_offset(Top)) = None

Add ==
    /\ CanHand
    /\ Hand(add(labels, Self, Top), FALSE)

AddStream ==
    /\ CanHand
    /\ Top.kind \in StreamKinds
    /\ Hand(add_stream(labels, Self, Top), TRUE)

Flags ==
    /\ state = "building"
    /\ bench = <<>>
    /\ Len(flagCalls) < MaxFlagCalls
    /\ \E v \in FlagValues \ {flagCalls[i] : i \in 1..Len(flagCalls)} :
         LET R == SynthMinidump_flags(labels, Self, v)
         IN  /\ labels' = R.L
             /\ Becomes(R.self)
             /\ flagCalls' = Append(flagCalls, v)
             /\ UNCHANGED <<endian, unit_endian, bench, target, state, output,
                            unit_contents, target_contents, calls, built>>

Finish ==
    /\ state = "building"
    /\ bench = <<>>
    /\ LET R == finish(labels, Self)
       IN  /\ labels' = R.L
           /\ state' = IF R.ok THEN "finished" ELSE "failed"
           /\ output' = R.bytes
           /\ UNCHANGED <<dumpVars, endian, unit_endian, bench, target, unit_contents,
                          target_contents, calls, flagCalls, built>>

(* test_section_cite: s1.cite_location_in(Section::with_endian(e)) *)
CiteLocation ==
    /\ state = "building"
    /\ Len(bench) = 1
    /\ target = <<>>
    /\ LET N == Section_with_endian(labels, endian)
         IN  /\ labels' = N.L
             /\ target' = <<[s |-> cite_location_in(N.L, Top, N.s),
                             size |-> file_size(Top),
                             offset |-> file_offset(Top),
                             early |-> Value(labels, file_offset(Top)) = None]>>
             /\ UNCHANGED <<dumpVars, endian, unit_endian, bench, state, output,
                            unit_contents, target_contents, calls, flagCalls,
                            built>>

(* test_section_cite: s1.start().set_const(v) *)
SetStart ==
    /\ state = "building"
    /\ bench # <<>>
    /\ Top.kind = "Section"
    /\ Value(labels, file_offset(Top)) = None
    /\ \E v \in StartValues :
         /\ labels' = set_const(labels, file_offset(Top), v)
         /\ UNCHANGED <<dumpVars, endian, unit_endian, bench, target, state, output,
                        unit_contents, target_contents, calls, flagCalls,
                        built>>

(* Into::<Section>::into(unit).get_contents() *)
UnitContents ==
    /\ state = "building"
    /\ Len(bench) = 1
    /\ unit_contents = <<>>
    /\ LET R == Serialized(labels, Top)
       IN  IF R.panic THEN Panic
           ELSE /\ labels' = R.L
                /\ bench' = Pop
                /\ unit_contents' = <<[ok |-> R.ok, bytes |-> R.bytes,
                                       unit |-> Top]>>
                /\ UNCHANGED <<dumpVars, endian, unit_endian, target, state, output,
                               target_contents, calls, flagCalls, built>>

(* s2.get_contents() *)
TargetContents ==
    /\ state = "building"
    /\ target # <<>>
    /\ target_contents = <<>>
    /\ LET R == get_contents(labels, target[1].s)
       IN  /\ labels' = R.L
           /\ target_contents' =
                  <<[ok |-> R.ok, bytes |-> R.bytes,
                     S |-> Value(labels, target[1].size),
                     O |-> Value(labels, target[1].offset)]>>
           /\ UNCHANGED <<dumpVars, endian, unit_endian, bench, target, state, output,
                          unit_contents, calls, flagCalls, built>>

(* The body of the dump: every kind of unit, added to the assembler *)
Next ==
    \/ NewSectionWithLabel
    \/ NewSimpleStream
    \/ NewList
    \/ NewName
    \/ NewMiscStream
    \/ SetPadToSize
    \/ ListAdd
    \/ Add
    \/ AddStream
    \/ Finish

Spec == Init /\ [][Next]_vars

(* The header: flags called at any point between the hand-overs, more     *)
(* than once, around add and add_stream calls                             *)
NextFlags ==
    \/ NewSectionWithLabel
    \/ NewSimpleStream
    \/ NewName
    \/ Add
    \/ AddStream
    \/ Flags
    \/ Finish

SpecFlags == Init /\ [][NextFlags]_vars

(* The units on their own: built, cited, serialized, placed *)
NextUnit ==
    \/ NewSection
    \/ NewSimpleStream
    \/ NewList
    \/ NewDumpString
    \/ NewMiscStream
    \/ SetProcessId
    \/ SetProcessCreateTime
    \/ SetPadToSize
    \/ ListAdd
    \/ CiteLocation
    \/ SetStart
    \/ UnitContents
    \/ TargetContents

SpecUnit == Init /\ [][NextUnit]_vars

(* Lists and MiscStreams added as streams, with flags called in between *)
NextBind ==
    \/ NewName
    \/ NewList
    \/ NewMiscStream
    \/ SetProcessId
    \/ ListAdd
    \/ AddStream
    \/ Flags
    \/ Finish

SpecBind == Init /\ [][NextBind]_vars

---------------------------------------------------------------------------
(* What the finished output is measured against: the history of calls *)

RECURSIVE SumSizes(_)
SumSizes(k) == IF k = 0 THEN 0 ELSE calls[k].len + SumSizes(k - 1)

StreamCalls == {k \in 1..Len(calls) : calls[k].stream}

(* the call that added the i-th stream *)
StreamCall(i) ==
    CHOOSE k \in StreamCalls :
        Cardinality({j \in StreamCalls : j <= k}) = i

UnitOffset(k) == HeaderSize + SumSizes(k - 1)

DirectoryOffset == HeaderSize + SumSizes(Len(calls))

Finished == state = "finished"

---------------------------------------------------------------------------
(* C1: after finish the stream directory holds one 12-byte entry per       *)
(* add_stream call and none for add calls, in the order of the add_stream  *)
(* calls; the i-th entry is (stream type, size, offset) of the i-th        *)
(* stream, where size is the length of the stream's bytes in the output    *)
(* and offset is where those bytes start in the output.                    *)
C1_DirectoryEntries ==
    Finished =>
        /\ Len(output) - DirectoryOffset = 12 * Cardinality(StreamCalls)
        /\ \A i \in 1..Cardinality(StreamCalls) :
             LET k == StreamCall(i)
                 c == calls[k]
             IN  /\ Slice(output, DirectoryOffset + 12 * (i - 1), 12) =
                        Bytes(c.stream_type, 4, endian)
                        \o Bytes(c.len, 4, endian)
                        \o Bytes(UnitOffset(k), 4, endian)
                 /\ Slice(output, UnitOffset(k), c.len) = c.ser

C1_Witness ==
    /\ Finished
    /\ Len(calls) = 2
    /\ ~calls[1].stream
    /\ calls[2].stream
    /\ calls[2].unit.kind = "List"
    /\ calls[2].unit.count > 0

(* C2: after finish, header bytes 8..12 hold the number of add_stream      *)
(* calls; add and flags calls do not count, and without add_stream it is 0 *)
C2_StreamCount ==
    Finished =>
        /\ Slice(output, 8, 4) = Bytes(Cardinality(StreamCalls), 4, endian)
        /\ StreamCalls = {} => Slice(output, 8, 4) = <<0, 0, 0, 0>>

C2_Witness ==
    /\ Finished
    /\ Len(calls) = 2
    /\ calls[1].stream
    /\ ~calls[2].stream
    /\ flagCalls # <<>>

(* C3: after finish, header bytes 12..16 hold the offset at which the      *)
(* directory starts: 32 plus the sizes of all units added; the directory   *)
(* bytes are the tail of the output; with nothing added the field is 32.   *)
C3_DirectoryOffset ==
    Finished =>
        /\ Slice(output, 12, 4) = Bytes(DirectoryOffset, 4, endian)
        /\ Len(output) = DirectoryOffset + size(stream_directory)
        /\ Slice(output, DirectoryOffset, size(stream_directory)) =
               Patched(labels, stream_directory)
        /\ calls = <<>> => Slice(output, 12, 4) = Bytes(32, 4, endian)

C3_Witness ==
    /\ Finished
    /\ Len(calls) = 2
    /\ calls[1].stream
    /\ calls[2].stream
    /\ calls[1].len # calls[2].len

(* C4: the output is the 32-byte header, then the bytes of every unit      *)
(* added, contiguous and in call order (the k-th at 32 plus the sizes of   *)
(* the k-1 before it), then the directory; its length is 32 + the unit     *)
(* sizes + 12 per add_stream call.                                         *)
C4_Layout ==
    Finished =>
        /\ Len(output) =
               32 + SumSizes(Len(calls)) + 12 * Cardinality(StreamCalls)
        /\ Slice(output, 0, 8) =
               Bytes(MD_HEADER_SIGNATURE, 4, endian)
               \o Bytes(MD_HEADER_VERSION, 4, endian)
        /\ Slice(output, 16, 8) =
               <<0, 0, 0, 0>> \o Bytes(DATE_TIME_STAMP, 4, endian)
        /\ \A k \in 1..Len(calls) :
               /\ calls[k].len = Len(calls[k].ser)
               /\ Slice(output, UnitOffset(k), calls[k].len) = calls[k].ser

C4_Witness ==
    /\ Finished
    /\ Len(calls) = 2
    /\ calls[1].unit.kind = "MiscStream"
    /\ calls[1].unit.pad_to_size # None
    /\ calls[2].unit.kind = "DumpString"
    /\ ~calls[2].stream

(* C5: the first 4 bytes of the output are the signature in the            *)
(* assembler's byte order; header bytes 24..32 are F in that byte order    *)
(* when flags(F) was called once, and 0 when flags was never called.       *)
C5_SignatureAndFlags ==
    Finished =>
        /\ Slice(output, 0, 4) = Bytes(MD_HEADER_SIGNATURE, 4, endian)
        /\ Slice(output, 0, 4) =
               IF endian = "Little" THEN <<77, 68, 77, 80>>
                                    ELSE <<80, 77, 68, 77>>
        /\ Len(flagCalls) = 1 =>
               Slice(output, 24, 8) = Bytes(flagCalls[1], 8, endian)
        /\ flagCalls = <<>> => Slice(output, 24, 8) = Zeros(8)
        /\ calls = <<>> => Len(output) = 32

C5_Witness ==
    /\ Finished
    /\ endian = "Big"
    /\ flagCalls = <<16909060>>
    /\ Slice(output, 24, 8) = <<0, 0, 0, 0, 1, 2, 3, 4>>

(* C6: finish returns None whenever a deferred value other than the flags  *)
(* that was written into the assembled structure is unbound at finish; the *)
(* default of 0 is given to the flags alone.                               *)
Dangling == \E k \in 1..Len(calls) : ~calls[k].serOk

C6_UnboundFails ==
    state \in {"finished", "failed"} =>
        /\ Dangling => state = "failed" /\ output = <<>>
        /\ state = "failed" =>
               \E r \in 1..Len(section.references) :
                   /\ section.references[r].label # flags
                   /\ Value(labels, section.references[r].label) = None
        /\ Value(labels, flags) # None

C6_Witness ==
    /\ state = "failed"
    /\ flagCalls = <<>>
    /\ Value(labels, flags) = 0
    /\ Dangling

(* C7: a second flags call is rejected and does not overwrite the value    *)
(* the first call bound.                                                   *)
C7_SecondFlagsRejected ==
    /\ Len(flagCalls) >= 1 => Value(labels, flags) = flagCalls[1]
    /\ Len(flagCalls) >= 2 => state = "panicked"

(* C8: cite_location_in appends exactly 8 bytes to the target: the unit's  *)
(* size S then its offset O, 4 bytes each, in the target's endianness;     *)
(* called before S and O are bound, the bytes are those of the values      *)
(* bound later.                                                            *)
C8_CiteLocation ==
    /\ target # <<>> => size(target[1].s) = 8
    /\ target_contents # <<>> =>
         LET t == target_contents[1]
         IN  IF t.S # None /\ t.O # None
             THEN /\ t.ok
                  /\ t.bytes = Bytes(t.S, 4, target[1].s.endian)
                               \o Bytes(t.O, 4, target[1].s.endian)
             ELSE ~t.ok

C8_Witness ==
    /\ target_contents # <<>>
    /\ target_contents[1].ok
    /\ target[1].early
    /\ target_contents[1].S # target_contents[1].O
    /\ endian # unit_endian

(* C9: a List converted to a Section serializes to a 4-byte count, the     *)
(* number of List::add calls, then the bytes of the entries in the order   *)
(* added; a List with no add call serializes to 4 zero bytes.              *)
RECURSIVE EntryBytes(_)
EntryBytes(entries) ==
    IF entries = <<>> THEN <<>>
    ELSE Head(entries).ser \o EntryBytes(Tail(entries))

C9_ListSerialized ==
    (unit_contents # <<>> /\ unit_contents[1].unit.kind = "List"
                          /\ unit_contents[1].ok) =>
        LET u == unit_contents[1].unit
        IN  /\ unit_contents[1].bytes =
                   Bytes(Len(u.entries), 4, u.section.endian)
                   \o EntryBytes(u.entries)
            /\ u.entries = <<>> => unit_contents[1].bytes = <<0, 0, 0, 0>>

C9_Witness ==
    /\ unit_contents # <<>>
    /\ unit_contents[1].unit.kind = "List"
    /\ unit_contents[1].ok
    /\ Len(unit_contents[1].unit.entries) = 2
    /\ unit_contents[1].unit.entries[1].ser #
           unit_contents[1].unit.entries[2].ser

(* C10, as the specification states it: a misc-info stream padded to a     *)
(* larger total size has a declared length (its first 4 bytes) that        *)
(* differs from its actual size.                                           *)
MiscContents ==
    /\ unit_contents # <<>>
    /\ unit_contents[1].unit.kind = "MiscStream"
    /\ unit_contents[1].ok

C11_MiscRecord ==
    MiscContents =>
        LET u == unit_contents[1].unit
            b == unit_contents[1].bytes
            e == u.section.endian
            mask == (IF u.process_id # None THEN 1 ELSE 0)
                    + (IF u.process_create_time # None THEN 2 ELSE 0)
        IN  /\ Slice(b, 4, 4) = Bytes(mask, 4, e)
            /\ Slice(b, 8, 4) =
                   Bytes(IF u.process_id # None THEN u.process_id ELSE 0, 4, e)
            /\ Slice(b, 12, 4) =
                   Bytes(IF u.process_create_time # None
                         THEN u.process_create_time ELSE 0, 4, e)
            /\ Slice(b, 16, 8) = Zeros(8)
            /\ u.pad_to_size = None => Len(b) = 24

C11_Witness ==
    /\ MiscContents
    /\ unit_contents[1].unit.process_id # None
    /\ unit_contents[1].unit.process_create_time = None
    /\ unit_contents[1].unit.pad_to_size = None
    /\ Slice(unit_contents[1].bytes, 4, 4) \in {<<1, 0, 0, 0>>, <<0, 0, 0, 1>>}
    /\ Slice(unit_contents[1].bytes, 12, 12) = Zeros(12)

(* C12: a string unit built from text t serializes to a 4-byte prefix, in  *)
(* the unit's endianness, equal to the byte length of the encoded text     *)
(* (two bytes per UTF-16 code unit, not the character count), followed by  *)
(* exactly that many encoded bytes; the empty text gives 4 zero bytes.     *)
RECURSIVE CodeUnits(_)
CodeUnits(text) ==
    IF text = <<>> THEN 0
    ELSE (IF Head(text) < 65536 THEN 1 ELSE 2) + CodeUnits(Tail(text))

StringContents ==
    /\ unit_contents # <<>>
    /\ unit_contents[1].unit.kind = "DumpString"

C12_StringSerialized ==
    StringContents =>
        LET u == unit_contents[1].unit
            b == unit_contents[1].bytes
        IN  /\ unit_contents[1].ok
            /\ Len(b) = 4 + 2 * CodeUnits(u.text)
            /\ Slice(b, 0, 4) = Bytes(2 * CodeUnits(u.text), 4, u.section.endian)
            /\ Slice(b, 4, Len(b) - 4) = UTF_16LE(u.text)
            /\ u.text = <<>> => b = <<0, 0, 0, 0>>
            /\ u.text = <<104, 105>> =>
                   Slice(b, 4, Len(b) - 4) = <<104, 0, 105, 0>>

C12_Witness ==
    /\ StringContents
    /\ unit_contents[1].unit.text = <<128512>>
    /\ unit_contents[1].unit.section.endian = "Big"
    /\ unit_contents[1].bytes = <<0, 0, 0, 4, 61, 216, 0, 222>>

(* C13: converting a MiscStream with pad_to_size P gives exactly P bytes    *)
(* when P >= 24; when P < 24 no padding is appended and the result has 24  *)
(* bytes; the padding length computation never underflows (the conversion  *)
(* never panics).                                                          *)
C13_PadNeverUnderflows ==
    /\ (state = "panicked" /\ bench # <<>>) => Top.kind # "MiscStream"
    /\ (MiscContents /\ unit_contents[1].unit.pad_to_size # None) =>
           Len(unit_contents[1].bytes) =
               IF unit_contents[1].unit.pad_to_size >= 24
               THEN unit_contents[1].unit.pad_to_size ELSE 24

(* C14: in a run where flags is called at most once and the units arrive   *)
(* with offset and size unbound, no deferred value is bound twice, and at  *)
(* the end of finish each of them (flags, stream count, directory offset,  *)
(* each unit's offset and size, each List count, each entry's offset and   *)
(* size, each MiscStream bitmask, and every Label the output refers to)    *)
(* has been bound exactly once.                                            *)
Binds(l) == labels[l].binds

RECURSIVE EntriesBoundOnce(_)
EntriesBoundOnce(entries) ==
    \A j \in 1..Len(entries) :
        /\ Binds(entries[j].offset) = 1
        /\ Binds(entries[j].size) = 1
        /\ EntriesBoundOnce(entries[j].sub)

(* The Labels written at byte 4 of the k-th unit: a MiscStream's bitmask *)
MaskLabels(k) ==
    {section.references[r].label :
        r \in {x \in 1..Len(section.references) :
                  section.references[x].offset = calls[k].at + 4}}

Ended == state \in {"finished", "failed"}

C14_BoundOnce ==
    Len(flagCalls) <= 1 =>
        /\ \A l \in 1..Len(labels) : Binds(l) <= 1
        /\ Ended =>
             /\ Binds(flags) = 1
             /\ Binds(stream_count_label) = 1
             /\ Binds(stream_directory_rva) = 1
             /\ state = "finished"
             /\ \A k \in 1..Len(calls) :
                    /\ Binds(calls[k].offset) = 1
                    /\ Binds(calls[k].size) = 1
                    /\ calls[k].unit.kind = "List" =>
                           /\ Binds(calls[k].unit.count_label) = 1
                           /\ EntriesBoundOnce(calls[k].unit.entries)
                    /\ calls[k].unit.kind = "MiscStream" =>
                           /\ Cardinality(MaskLabels(k)) = 1
                           /\ \A l \in MaskLabels(k) : Binds(l) = 1
             /\ \A r \in 1..Len(section.references) :
                    /\ Binds(section.references[r].label) = 1
                    /\ Value(labels, section.references[r].label) # None

C14_Witness ==
    /\ state = "finished"
    /\ Len(flagCalls) = 1
    /\ Binds(flags) = 1
    /\ \E k \in 1..Len(calls) :
           /\ calls[k].unit.kind = "List"
           /\ calls[k].unit.entries # <<>>
           /\ Binds(calls[k].unit.entries[1].offset) = 1
    /\ \E k \in 1..Len(calls) :
           /\ calls[k].unit.kind = "MiscStream"
           /\ \E l \in MaskLabels(k) : Binds(l) = 1

(* C15: when a List has been added to the assembler, its k-th entry's      *)
(* offset resolves to the list's file offset + 4 + the sizes of the first  *)
(* k-1 entries, at every nesting depth, and in the finished dump the       *)
(* entry's bytes lie there; while a list is not placed in a parent its     *)
(* entries' offsets stay unresolved.                                       *)
RECURSIVE SumLens(_, _)
SumLens(entries, n) ==
    IF n = 0 THEN 0 ELSE entries[n].len + SumLens(entries, n - 1)

RECURSIVE EntriesPlaced(_, _)
EntriesPlaced(entries, base) ==
    \A k \in 1..Len(entries) :
        LET off == base + 4 + SumLens(entries, k - 1)
        IN  /\ Value(labels, entries[k].offset) = off
            /\ Finished =>
                   Slice(output, off, entries[k].len) = entries[k].ser
            /\ EntriesPlaced(entries[k].sub, off)

RECURSIVE EntriesUnresolved(_)
EntriesUnresolved(entries) ==
    \A k \in 1..Len(entries) :
        /\ Value(labels, entries[k].offset) = None
        /\ EntriesUnresolved(entries[k].sub)

C15_EntryOffsets ==
    /\ \A c \in 1..Len(calls) :
           calls[c].unit.kind = "List" =>
               /\ Value(labels, calls[c].offset) = calls[c].at
               /\ EntriesPlaced(calls[c].unit.entries, calls[c].at)
    /\ \A b \in 1..Len(bench) :
           bench[b].kind = "List" => EntriesUnresolved(bench[b].entries)

C15_Witness ==
    /\ Finished
    /\ \E c \in 1..Len(calls) :
           /\ calls[c].unit.kind = "List"
           /\ Len(calls[c].unit.entries) = 2
           /\ calls[c].unit.entries[1].len = 8
           /\ Value(labels, calls[c].unit.entries[2].offset) = calls[c].at + 12

(* C16: in every building state the stream directory is 12 bytes per      *)
(* counted stream and the main section is the 32-byte header plus the      *)
(* sizes of the units added so far; an add_stream step appends one 12-byte *)
(* entry, starting with the stream's type, and counts one stream; an add   *)
(* step leaves the directory and the counter as they were; both append the *)
(* unit's bytes to the main section.                                       *)
BuildingLengths ==
    state = "building" =>
        /\ size(stream_directory) = 12 * stream_count
        /\ size(section) = HeaderSize + SumSizes(Len(calls))

AddStep ==
    Len(calls') = Len(calls) + 1 =>
        LET c == calls'[Len(calls')]
        IN  /\ size(section') = size(section) + c.len
            /\ SubSeq(section'.contents, 1, size(section)) = section.contents
            /\ c.stream =>
                   /\ stream_count' = stream_count + 1
                   /\ size(stream_directory') = size(stream_directory) + 12
                   /\ Slice(stream_directory'.contents,
                            size(stream_directory), 4) =
                          Bytes(c.stream_type, 4, endian)
            /\ ~c.stream =>
                   /\ stream_count' = stream_count
                   /\ stream_directory' = stream_directory

====
